---------------------------- MODULE Spec2Model ----------------------------
(***************************************************************************)
(* SystemViz (system-viz.js): the interactive node graph of the portfolio  *)
(* page.  One instance, its host page (canvas, HUD sinks, buttons), the    *)
(* browser's animation-frame queue and the input events delivered to it.   *)
(* Beside it, the typing effect of animations.js with its timers and the   *)
(* contact form of main.js with its status line.                           *)
(*                                                                         *)
(* Numbers are fixed point: lengths in whole pixels, angles and the time   *)
(* accumulator in thousandths (0.015 is 15), sines and cosines times 1000. *)
(* Array indices are 1-based; Undefined (0) is JavaScript's undefined.     *)
(***************************************************************************)
EXTENDS Integers, Sequences, FiniteSets, TLC

VARIABLES
    pc,            \* "new" | "inert" (canvas absent) | "live" | "failed" (constructor threw)
    canvasPresent, \* document.getElementById(canvasId) is an element
    sinkPresent,   \* per HUD sink: document.getElementById(hudIds[k]) is an element
    btnPresent,    \* per bulk button: the element exists in the host page
    width, height, \* this.width, this.height
    nodes,         \* this.nodes
    edges,         \* this.edges
    edgesData,     \* this.edgesData
    hoveredNode,   \* this.hoveredNode: NoNode or a reference to a node object
    time,          \* this.time, in thousandths
    animId,        \* this.animId: 0 while unset, else the last requestAnimationFrame handle
    rafPending,    \* the browser's pending animation-frame callback of this instance (0: none)
    bound,         \* whether _bindEvents has registered the listeners
    hud,           \* textContent of the three HUD sinks
    error,         \* whether an exception has escaped a handler or the constructor
    layouts,       \* number of _layoutNodes runs so far (identity of the node objects)
    destroyCalls,  \* number of destroy() calls so far
    drawn,         \* the canvas: what the latest frame drew since its clearRect, in order
    typing,        \* the typing effect of animations.js: its closure, element and timers
    form           \* the contact form of main.js: its status line and pending timers

vars == <<pc, canvasPresent, sinkPresent, btnPresent, width, height, nodes, edges,
          edgesData, hoveredNode, time, animId, rafPending, bound, hud,
          error, layouts, destroyCalls, drawn, typing, form>>

-----------------------------------------------------------------------------
(* Bounds of the model *)

MaxFrames == 2       \* animation frames run, the constructor's first one included
MaxResizes == 1      \* resize events delivered
MaxDestroy == 2      \* destroy() calls made by the host
MaxPointerNode == 2  \* pointer events aim at nodes 1..MaxPointerNode (and at empty space)
MaxSurface == 1      \* surfaces 0..MaxSurface of Surfaces are offered to _resize
MaxTicks == 14       \* runs of the typing effect's tick
MaxCleanups == 2     \* calls of the typing effect's cleanup function
MaxSubmits == 3      \* submit events of the contact form

-----------------------------------------------------------------------------
(* Program constants *)

Undefined == 0
NoNode == [idx |-> 0, gen |-> 0]

TimeStep == 15
CoreRadius == 28
NodeRadius == 22
MouseTolerance == 5
TouchTolerance == 10
JitterSpan == 30
DriftAmplitude == 3
HudBarOffset == 30
LayoutRadiusPct == 32
HalfPi == 1571
Pi == 3142
TwoPi == 6283

TypeSpeed == 80
DeleteSpeed == 50
PauseTime == 2000
StartDelay == 1200
NextStringDelay == 400

SendDelay == 1500
ClearDelay == 5000

nodesData ==
    << [id |-> "core",       group |-> "core"],
       [id |-> "frontend",   group |-> "software"],
       [id |-> "backend",    group |-> "software"],
       [id |-> "database",   group |-> "software"],
       [id |-> "network",    group |-> "infra"],
       [id |-> "security",   group |-> "infra"],
       [id |-> "ml",         group |-> "data"],
       [id |-> "analytics",  group |-> "data"],
       [id |-> "iot",        group |-> "hardware"],
       [id |-> "control",    group |-> "hardware"],
       [id |-> "monitoring", group |-> "ops"],
       [id |-> "deploy",     group |-> "ops"] >>

ShippedEdges ==
    << <<"core", "frontend">>, <<"core", "backend">>, <<"core", "network">>,
       <<"core", "security">>, <<"core", "monitoring">>,
       <<"frontend", "backend">>, <<"backend", "database">>,
       <<"backend", "ml">>, <<"ml", "analytics">>,
       <<"network", "security">>, <<"network", "iot">>,
       <<"iot", "control">>, <<"control", "monitoring">>,
       <<"monitoring", "deploy">>, <<"deploy", "backend">>,
       <<"analytics", "monitoring">>, <<"database", "analytics">> >>

Sinks == {"active", "connections", "load"}
Buttons == {"activate", "reset"}


\* What a layout run meets: the size getBoundingClientRect reports and the
\* stream Math.random draws from.  A desktop panel, a panel so small that the
\* ring falls inside the central node, a collapsed (zero-size) panel, a wide one.
Surfaces ==
    << [w |-> 600,  h |-> 400, seed |-> 1],
       [w |-> 120,  h |-> 120, seed |-> 0],
       [w |-> 0,    h |-> 0,   seed |-> 2],
       [w |-> 1000, h |-> 300, seed |-> 3] >>

SurfaceChoices == {Surfaces[k + 1] : k \in 0..MaxSurface}

-----------------------------------------------------------------------------
(* Arithmetic *)

\* a / b rounded to the nearest integer, halves up (Math.round), b > 0
RoundDiv(a, b) == (2 * a + b) \div (2 * b)

Min(a, b) == IF a < b THEN a ELSE b

\* 1000 * sin(x / 1000) for 0 <= x <= HalfPi, by the series x - x^3/6 + x^5/120 - x^7/5040
SinQ(x) ==
    LET x2 == RoundDiv(x * x, 1000)
        x4 == RoundDiv(x2 * x2, 1000)
        x6 == RoundDiv(x4 * x2, 1000)
    IN  x - RoundDiv(x2 * x, 6000) + RoundDiv(x4 * x, 120000) - RoundDiv(x6 * x, 5040000)

\* 1000 * Math.sin(a / 1000)
Sin(a) ==
    LET m == a % TwoPi
    IN  IF m <= HalfPi THEN SinQ(m)
        ELSE IF m <= Pi THEN SinQ(Pi - m)
        ELSE IF m <= Pi + HalfPi THEN -SinQ(m - Pi)
        ELSE -SinQ(TwoPi - m)

\* 1000 * Math.cos(a / 1000)
Cos(a) == Sin(a + HalfPi)

\* The k-th Math.random() draw of random stream seed, scaled to 0..n-1
Random(seed, k, n) == (((seed + 2) * (k * k + 7 * k + 5) + k) \div 3) % n

-----------------------------------------------------------------------------
(* _layoutNodes *)

IsCore(data) == data.group = "core"

\* The anchor of node i (1-based) on a w x h surface, jitter drawn from stream seed
Anchor(data, i, w, h, seed) ==
    LET cx     == w \div 2
        cy     == h \div 2 - HudBarOffset
        radius == RoundDiv(Min(w, h) * LayoutRadiusPct, 100)
        angle  == ((i - 1) * TwoPi) \div Len(nodesData) - HalfPi
        r      == IF IsCore(data) THEN 0 ELSE radius
        jitter == IF IsCore(data) THEN 0
                  ELSE Random(seed, 2 * i, JitterSpan) - JitterSpan \div 2
    IN  [x |-> cx + RoundDiv(Cos(angle) * (r + jitter), 1000),
         y |-> cy + RoundDiv(Sin(angle) * (r + jitter), 1000)]

\* LayoutNode with "active: data.group === 'core'" in place of "active: false"
LayoutNodeCoreOn(data, i, w, h, seed, gen) ==
    LET at == Anchor(data, i, w, h, seed)
    IN  [id |-> data.id, group |-> data.group,
         x |-> at.x, y |-> at.y, baseX |-> at.x, baseY |-> at.y,
         radius |-> IF IsCore(data) THEN CoreRadius ELSE NodeRadius,
         active |-> IsCore(data),
         pulsePhase |-> Random(seed, 2 * i + 1, 4) * HalfPi,
         gen |-> gen]

\* The node object the map callback of _layoutNodes returns
LayoutNode(data, i, w, h, seed, gen) ==
    LET at == Anchor(data, i, w, h, seed)
    IN  [id |-> data.id, group |-> data.group,
         x |-> at.x, y |-> at.y, baseX |-> at.x, baseY |-> at.y,
         radius |-> IF IsCore(data) THEN CoreRadius ELSE NodeRadius,
         active |-> FALSE,
         pulsePhase |-> Random(seed, 2 * i + 1, 4) * HalfPi,
         gen |-> gen]

LayoutNodes(w, h, seed, gen) ==
    [i \in 1..Len(nodesData) |-> LayoutNode(nodesData[i], i, w, h, seed, gen)]

-----------------------------------------------------------------------------
(* _buildEdges *)

\* NodeMap keyed by n.group in place of n.id
NodeMapByGroup(ns, id) ==
    LET hits == {i \in 1..Len(ns) : ns[i].group = id}
    IN  IF hits = {} THEN Undefined ELSE CHOOSE i \in hits : \A j \in hits : j <= i

\* nodeMap[id]: forEach overwrites, so the last node carrying the id wins
NodeMap(ns, id) ==
    LET hits == {i \in 1..Len(ns) : ns[i].id = id}
    IN  IF hits = {} THEN Undefined ELSE CHOOSE i \in hits : \A j \in hits : j <= i

BuildEdges(ns, ed) ==
    [k \in 1..Len(ed) |-> [from |-> NodeMap(ns, ed[k][1]), to |-> NodeMap(ns, ed[k][2])]]

-----------------------------------------------------------------------------
(* Hit testing: the loops of the click, touchstart and hover handlers *)

\* Within with <= in place of <
WithinOrOn(node, mx, my, tolerance) ==
    LET dx == mx - node.x
        dy == my - node.y
        reach == node.radius + tolerance
    IN  dx * dx + dy * dy <= reach * reach

\* Math.sqrt(dx * dx + dy * dy) < node.radius + tolerance
Within(node, mx, my, tolerance) ==
    LET dx == mx - node.x
        dy == my - node.y
        reach == node.radius + tolerance
    IN  dx * dx + dy * dy < reach * reach

\* for (const node of this.nodes) ... break: the first node within reach, or Undefined
HitIndex(ns, mx, my, tolerance) ==
    LET hits == {i \in 1..Len(ns) : Within(ns[i], mx, my, tolerance)}
    IN  IF hits = {} THEN Undefined ELSE CHOOSE i \in hits : \A j \in hits : i <= j

\* node.active = !node.active on the node that was hit
Toggle(ns, i) == [ns EXCEPT ![i].active = ~ns[i].active]

\* PressNodes without the break: every node within reach is toggled
PressNodesNoBreak(ns, mx, my, tolerance) ==
    [i \in 1..Len(ns) |->
        IF Within(ns[i], mx, my, tolerance)
        THEN [ns[i] EXCEPT !.active = ~ns[i].active]
        ELSE ns[i]]

\* The nodes after the loop of the click and touchstart handlers: the first
\* node within reach is toggled and the loop breaks
PressNodes(ns, mx, my, tolerance) ==
    LET i == HitIndex(ns, mx, my, tolerance)
    IN  IF i = Undefined THEN ns ELSE Toggle(ns, i)

\* SetAll by a loop that starts at index 1 and so skips the first node
SetAllSkipFirst(ns, value) ==
    [i \in 1..Len(ns) |-> IF i = 1 THEN ns[i] ELSE [ns[i] EXCEPT !.active = value]]

\* this.nodes.forEach(n => { n.active = value; })
SetAll(ns, value) == [i \in 1..Len(ns) |-> [ns[i] EXCEPT !.active = value]]

\* A reference to the node object at index i of ns
RefTo(ns, i) == [idx |-> i, gen |-> ns[i].gen]

\* UpdateHover without the return inside the loop: the last node within reach
UpdateHoverLast(ns, mx, my) ==
    LET hits == {i \in 1..Len(ns) : Within(ns[i], mx, my, MouseTolerance)}
    IN  IF hits = {} THEN NoNode
        ELSE RefTo(ns, CHOOSE i \in hits : \A j \in hits : j <= i)

\* _updateHover: the new this.hoveredNode
UpdateHover(ns, mx, my) ==
    LET i == HitIndex(ns, mx, my, MouseTolerance)
    IN  IF i = Undefined THEN NoNode ELSE RefTo(ns, i)

-----------------------------------------------------------------------------
(* _updateHUD *)

ActiveCount(ns) == Cardinality({i \in 1..Len(ns) : ns[i].active})

\* BothActive with || in place of &&
BothActiveEither(ns, e) == ns[e.from].active \/ ns[e.to].active

\* this.nodes[e.from].active && this.nodes[e.to].active, on resolved endpoints
BothActive(ns, e) == ns[e.from].active /\ ns[e.to].active

ActiveEdges(ns, es) == Cardinality({k \in 1..Len(es) : BothActive(ns, es[k])})

\* Load with Math.floor in place of Math.round
LoadFloor(active, total) == (active * 100) \div total

\* Math.round((active / total) * 100)
Load(active, total) == RoundDiv(active * 100, total)

\* The filter callback reads .active of this.nodes[undefined]: a TypeError.
\* e.to is read only when the from node is active (&& short-circuits).
HudThrows(ns, es) ==
    \E k \in 1..Len(es) :
        \/ es[k].from = Undefined
        \/ ns[es[k].from].active /\ es[k].to = Undefined

\* The three texts _updateHUD computes
HudTexts(ns, es) ==
    LET active == ActiveCount(ns)
        total  == Len(ns)
    IN  [active      |-> ToString(active) \o " / " \o ToString(total),
         connections |-> ToString(ActiveEdges(ns, es)),
         load        |-> ToString(Load(active, total)) \o "%"]

\* PushHUD by a setEl without "if (el)": every sink is written
PushHUDUnguarded(ns, es, present, old) == HudTexts(ns, es)

\* setEl on each sink: el.textContent = text when the element exists
PushHUD(ns, es, present, old) ==
    LET texts == HudTexts(ns, es)
    IN  [k \in Sinks |-> IF present[k] THEN texts[k] ELSE old[k]]

-----------------------------------------------------------------------------
(* _drawEdges, _drawNodes *)

\* _drawEdges reads a.active and b.active of both endpoints of every edge
\* (bothActive reads b when a is active, eitherActive reads b when it is not)
DrawThrows(es) ==
    \E k \in 1..Len(es) : es[k].from = Undefined \/ es[k].to = Undefined

\* The line style _drawEdges picks for an edge with resolved endpoints; the
\* bright style is the one that also gets the moving data packet
EdgeStyle(ns, e) ==
    LET a == ns[e.from]
        b == ns[e.to]
    IN  IF a.active /\ b.active THEN "bright"
        ELSE IF a.active \/ b.active THEN "dim"
        ELSE "idle"

\* The strokes of _drawEdges, one per edge in array order, up to the first
\* edge whose endpoint lookup throws
EdgesDrawn(es) ==
    LET bad  == {k \in 1..Len(es) : es[k].from = Undefined \/ es[k].to = Undefined}
        last == IF bad = {} THEN Len(es) ELSE (CHOOSE k \in bad : \A j \in bad : k <= j) - 1
    IN  [k \in 1..last |-> <<"edge", k>>]

\* The discs of _drawNodes, one per node in array order
NodesDrawn(ns) == [i \in 1..Len(ns) |-> <<"node", i>>]

\* _drawNodes: the floating motion of every node at time t
DrawNodes(ns, t) ==
    [i \in 1..Len(ns) |->
        [ns[i] EXCEPT
            !.x = ns[i].baseX + RoundDiv(Sin(t + ns[i].pulsePhase) * DriftAmplitude, 1000),
            !.y = ns[i].baseY
                  + RoundDiv(Cos((t * 8) \div 10 + ns[i].pulsePhase) * DriftAmplitude, 1000)]]

-----------------------------------------------------------------------------
(* initTypingEffect: the closure (stringIndex, charIndex, isDeleting,        *)
(* timeout), the element's text and the browser's timer of the effect.       *)
(* A string is the sequence of its characters.  Timer handles are 1, 2, ...  *)
(* in the order setTimeout hands them out; 0 is null (no handle, no timer).  *)

\* The phrases main.js passes, shortened to their initials
ShippedStrings == << <<"S", "T">>, <<"P", "S">>, <<"W", "D">>, <<"F", "E">>, <<"C", "A">> >>

\* The string arrays a caller passes: the shipped one, a single string, one-
\* and two-character strings, and an array holding the empty string
TypingArrays ==
    { ShippedStrings,
      << <<"a", "b", "c">> >>,
      << <<"x">>, <<"y", "z">> >>,
      << <<"a">>, << >> >> }

\* current.substring(0, n): n is clamped to 0..current.length
Substring(current, n) ==
    SubSeq(current, 1, IF n < 0 THEN 0 ELSE Min(n, Len(current)))

\* The effect before initTypingEffect(elementId, strings) is called
TypingNew(strings, present) ==
    [phase |-> "new", el |-> present, strings |-> strings,
     stringIndex |-> 0, charIndex |-> 0, isDeleting |-> FALSE, timeout |-> 0,
     text |-> << >>, pending |-> 0, delay |-> 0, handles |-> 0,
     ticks |-> 0, cleanups |-> 0]

\* tick(): one character typed or deleted, the phase switches, the next timer
TickOf(t) ==
    LET current  == t.strings[t.stringIndex + 1]
        ci       == IF t.isDeleting THEN t.charIndex - 1 ELSE t.charIndex + 1
        atEnd    == ~t.isDeleting /\ ci = Len(current)
        deleting == t.isDeleting \/ atEnd
        atStart  == deleting /\ ci = 0
        delay    == IF atStart THEN NextStringDelay
                    ELSE IF atEnd THEN PauseTime
                    ELSE IF t.isDeleting THEN DeleteSpeed ELSE TypeSpeed
    IN  [t EXCEPT !.charIndex = ci,
                  !.text = Substring(current, ci),
                  !.isDeleting = deleting /\ ~atStart,
                  !.stringIndex = IF atStart THEN (t.stringIndex + 1) % Len(t.strings)
                                  ELSE t.stringIndex,
                  !.timeout = t.handles + 1,
                  !.pending = t.handles + 1,
                  !.handles = t.handles + 1,
                  !.delay = delay,
                  !.ticks = t.ticks + 1]

-----------------------------------------------------------------------------
(* The contact form: the status line (textContent and the type in its        *)
(* className) and the timers setTimeout holds for it.  A timer is kept with  *)
(* the time left until it is due, in milliseconds.  Each showFormStatus call *)
(* that writes the status line has a number; shownBy is the number of the    *)
(* call whose message is on display (0: the line is empty), and a clear      *)
(* timer carries the number of the call that set it.                         *)

\* The page before any submit; formEl and statusEl tell whether #contact-form
\* and #form-status exist
FormNew(formEl, statusEl) ==
    [formEl |-> formEl, statusEl |-> statusEl,
     text |-> "", type |-> "", shownBy |-> 0,
     timers |-> {}, calls |-> 0, submits |-> 0]

\* The timers after ms milliseconds have passed
Aged(timers, ms) == {[t EXCEPT !.left = t.left - ms] : t \in timers}

\* showFormStatus(msg, type)
ShowFormStatus(f, msg, type) ==
    IF ~f.statusEl THEN f
    ELSE [f EXCEPT !.text = msg, !.type = type,
                   !.calls = f.calls + 1, !.shownBy = f.calls + 1,
                   !.timers = IF type # ""
                              THEN f.timers \cup {[left |-> ClearDelay, kind |-> "clear",
                                                   of |-> f.calls + 1]}
                              ELSE f.timers]

\* The submit handler on what the visitor has entered: "blank" (a field is
\* empty), "bademail" (the address fails the pattern) or "valid".  The two
\* messages of a valid submit are written without their ornaments.
OnSubmit(f, entry) ==
    LET g == [f EXCEPT !.submits = f.submits + 1]
    IN  IF entry = "blank" THEN ShowFormStatus(g, "Please fill in all fields.", "error")
        ELSE IF entry = "bademail"
        THEN ShowFormStatus(g, "Please enter a valid email address.", "error")
        ELSE LET h == ShowFormStatus(g, "Transmitting", "")
             IN  [h EXCEPT !.timers = h.timers \cup {[left |-> SendDelay, kind |-> "send",
                                                      of |-> g.submits]}]

\* The callback of timer t, run on the form f from which t has been removed
OnTimer(f, t) ==
    IF t.kind = "clear"
    THEN [f EXCEPT !.text = "", !.type = "", !.shownBy = 0]
    ELSE ShowFormStatus(f, "Message received", "success")

-----------------------------------------------------------------------------
(* Initial states: the page is loaded and new SystemViz(...) has not run yet. *)
(* Fields the constructor sets hold the value the constructor gives them.    *)

InitFields ==
    /\ pc = "new"
    /\ width = 0 /\ height = 0
    /\ nodes = << >> /\ edges = << >>
    /\ hoveredNode = NoNode
    /\ time = 0
    /\ animId = 0 /\ rafPending = 0
    /\ bound = FALSE
    /\ hud = [k \in Sinks |-> ""]
    /\ error = FALSE
    /\ layouts = 0
    /\ destroyCalls = 0
    /\ drawn = << >>

\* The page as main.js expects it: canvas, the three sinks and both buttons exist
FullHost ==
    [canvas |-> TRUE, sinks |-> [k \in Sinks |-> TRUE], buttons |-> [b \in Buttons |-> TRUE]]

\* Host pages that omit elements: the canvas, one sink, or every sink and button
Hosts ==
    { FullHost,
      [FullHost EXCEPT !.canvas = FALSE],
      [FullHost EXCEPT !.sinks = [k \in Sinks |-> k # "connections"]],
      [FullHost EXCEPT !.sinks = [k \in Sinks |-> FALSE],
                       !.buttons = [b \in Buttons |-> FALSE]] }

\* An edge list naming an identity no node carries, as the from or the to end
\* of an extra edge
EdgeLists ==
    { ShippedEdges,
      Append(ShippedEdges, <<"core", "cache">>),
      Append(ShippedEdges, <<"cache", "core">>),
      Append(ShippedEdges, <<"deploy", "core">>) }

InitWith(host, edgeList) ==
    /\ InitFields
    /\ canvasPresent = host.canvas
    /\ sinkPresent = host.sinks
    /\ btnPresent = host.buttons
    /\ edgesData = edgeList
    /\ typing = TypingNew(ShippedStrings, TRUE)
    /\ form = FormNew(TRUE, TRUE)

Init == InitWith(FullHost, ShippedEdges)

\* Any of the host pages, with the shipped edge list
InitHost == \E host \in Hosts : InitWith(host, ShippedEdges)

\* The full host page, with any of the edge lists
InitEdges == \E edgeList \in EdgeLists : InitWith(FullHost, edgeList)

-----------------------------------------------------------------------------
(* _animate: one frame, as a function of the state it reads *)

\* Animate with _drawNodes() called before _drawEdges()
AnimateNodesFirst(ns, es, t, id) ==
    IF DrawThrows(es)
    THEN [time |-> t + TimeStep, nodes |-> DrawNodes(ns, t + TimeStep), animId |-> id,
          rafPending |-> 0, drawn |-> NodesDrawn(ns) \o EdgesDrawn(es), threw |-> TRUE]
    ELSE [time |-> t + TimeStep, nodes |-> DrawNodes(ns, t + TimeStep),
          animId |-> id + 1, rafPending |-> id + 1,
          drawn |-> NodesDrawn(ns) \o EdgesDrawn(es), threw |-> FALSE]

\* this.time += 0.015; _drawEdges(); _drawNodes(); this.animId = requestAnimationFrame(...)
\* A TypeError in _drawEdges ends the frame before the nodes move and before
\* the next frame is requested.
Animate(ns, es, t, id) ==
    IF DrawThrows(es)
    THEN [time |-> t + TimeStep, nodes |-> ns, animId |-> id, rafPending |-> 0,
          drawn |-> EdgesDrawn(es), threw |-> TRUE]
    ELSE [time |-> t + TimeStep, nodes |-> DrawNodes(ns, t + TimeStep),
          animId |-> id + 1, rafPending |-> id + 1,
          drawn |-> EdgesDrawn(es) \o NodesDrawn(ns), threw |-> FALSE]

\* _updateHUD as run by a handler on the nodes ns it has just written
UpdateHUD(ns) ==
    IF HudThrows(ns, edges)
    THEN hud' = hud /\ error' = TRUE
    ELSE hud' = PushHUD(ns, edges, sinkPresent, hud) /\ error' = error

-----------------------------------------------------------------------------
(* Operations *)

\* new SystemViz(canvasId, hudIds): constructor and _init
Construct(s) ==
    /\ pc = "new"
    /\ IF ~canvasPresent
       THEN /\ pc' = "inert"
            /\ UNCHANGED <<width, height, nodes, edges, hoveredNode, time,
                           animId, rafPending, bound, hud, error, layouts, drawn>>
       ELSE LET ns == LayoutNodes(s.w, s.h, s.seed, 1)
                es == BuildEdges(ns, edgesData)
                fr == Animate(ns, es, 0, 0)
            IN  /\ width' = s.w /\ height' = s.h
                /\ hoveredNode' = NoNode
                /\ layouts' = 1
                /\ edges' = es
                /\ bound' = TRUE
                /\ IF HudThrows(ns, es)
                   THEN /\ hud' = hud /\ error' = TRUE /\ pc' = "failed"
                        /\ nodes' = ns /\ time' = 0
                        /\ animId' = 0 /\ rafPending' = 0 /\ drawn' = drawn
                   ELSE /\ hud' = PushHUD(ns, es, sinkPresent, hud)
                        /\ nodes' = fr.nodes /\ time' = fr.time
                        /\ animId' = fr.animId /\ rafPending' = fr.rafPending
                        /\ error' = fr.threw /\ drawn' = fr.drawn
                        /\ pc' = IF fr.threw THEN "failed" ELSE "live"
    /\ UNCHANGED <<typing, form, canvasPresent, sinkPresent, btnPresent, edgesData,
                   destroyCalls>>

\* The browser runs the pending animation-frame callback
Frame ==
    /\ rafPending # 0
    /\ animId < MaxFrames
    /\ LET fr == Animate(nodes, edges, time, animId)
       IN  /\ nodes' = fr.nodes /\ time' = fr.time
           /\ animId' = fr.animId /\ rafPending' = fr.rafPending
           /\ error' = (error \/ fr.threw)
           /\ drawn' = fr.drawn
    /\ UNCHANGED <<pc, typing, form, canvasPresent, sinkPresent, btnPresent, width, height, edges,
                   edgesData, hoveredNode, bound, hud, layouts, destroyCalls>>

\* window 'resize': _resize, _layoutNodes, _buildEdges
Resize(s) ==
    /\ bound
    /\ layouts <= MaxResizes
    /\ width' = s.w /\ height' = s.h
    /\ nodes' = LayoutNodes(s.w, s.h, s.seed, layouts + 1)
    /\ edges' = BuildEdges(nodes', edgesData)
    /\ layouts' = layouts + 1
    /\ UNCHANGED <<pc, typing, form, drawn, canvasPresent, sinkPresent, btnPresent, edgesData, hoveredNode,
                   time, animId, rafPending, bound, hud, error, destroyCalls>>

\* canvas 'mousemove' at surface point p.  this.mouse is written here and read
\* only by _updateHover inside this handler, so it is carried as the input p.
MouseMove(p) ==
    /\ bound
    /\ hoveredNode' = UpdateHover(nodes, p.x, p.y)
    /\ UNCHANGED <<pc, typing, form, drawn, canvasPresent, sinkPresent, btnPresent, width, height, nodes,
                   edges, edgesData, time, animId, rafPending, bound, hud, error,
                   layouts, destroyCalls>>

\* canvas 'mouseleave'
MouseLeave ==
    /\ bound
    /\ hoveredNode' = NoNode
    /\ UNCHANGED <<pc, typing, form, drawn, canvasPresent, sinkPresent, btnPresent, width, height, nodes,
                   edges, edgesData, time, animId, rafPending, bound, hud, error,
                   layouts, destroyCalls>>

\* Press with _updateHUD after the loop, so that it runs on a miss as well
PressAlwaysPush(p, tolerance) ==
    /\ bound
    /\ nodes' = PressNodes(nodes, p.x, p.y, tolerance)
    /\ UpdateHUD(nodes')
    /\ UNCHANGED <<pc, typing, form, drawn, canvasPresent, sinkPresent, btnPresent, width,
                   height, edges, edgesData, hoveredNode, time, animId, rafPending,
                   bound, layouts, destroyCalls>>

\* The handler body shared by click and touchstart, with its tolerance:
\* _updateHUD runs only when a node was hit
Press(p, tolerance) ==
    /\ bound
    /\ nodes' = PressNodes(nodes, p.x, p.y, tolerance)
    /\ IF HitIndex(nodes, p.x, p.y, tolerance) = Undefined
       THEN UNCHANGED <<hud, error>>
       ELSE UpdateHUD(nodes')
    /\ UNCHANGED <<pc, typing, form, drawn, canvasPresent, sinkPresent, btnPresent, width, height, edges,
                   edgesData, hoveredNode, time, animId, rafPending, bound,
                   layouts, destroyCalls>>

\* canvas 'click' at surface point p
Click(p) == Press(p, MouseTolerance)

\* canvas 'touchstart' with its first touch at surface point p
TouchStart(p) == Press(p, TouchTolerance)

\* The handler shared by the two bulk buttons
Bulk(button, value) ==
    /\ bound
    /\ btnPresent[button]
    /\ nodes' = SetAll(nodes, value)
    /\ UpdateHUD(nodes')
    /\ UNCHANGED <<pc, typing, form, drawn, canvasPresent, sinkPresent, btnPresent, width, height, edges,
                   edgesData, hoveredNode, time, animId, rafPending, bound,
                   layouts, destroyCalls>>

\* 'click' on #activate-all
ActivateAll == Bulk("activate", TRUE)

\* 'click' on #reset-all
ResetAll == Bulk("reset", FALSE)

\* destroy() that first detaches a listener from this.canvas, without the
\* guard: a TypeError when the canvas is absent
DestroyUnguarded ==
    /\ pc \in {"inert", "live"}
    /\ destroyCalls < MaxDestroy
    /\ destroyCalls' = destroyCalls + 1
    /\ error' = (error \/ ~canvasPresent)
    /\ rafPending' = IF animId # 0 /\ rafPending = animId THEN 0 ELSE rafPending
    /\ UNCHANGED <<pc, typing, form, drawn, canvasPresent, sinkPresent, btnPresent, width, height, nodes,
                   edges, edgesData, hoveredNode, time, animId, bound, hud,
                   layouts>>

\* destroy(), called by the host on the instance the constructor returned
Destroy ==
    /\ pc \in {"inert", "live"}
    /\ destroyCalls < MaxDestroy
    /\ destroyCalls' = destroyCalls + 1
    /\ rafPending' = IF animId # 0 /\ rafPending = animId THEN 0 ELSE rafPending
    /\ UNCHANGED <<pc, typing, form, drawn, canvasPresent, sinkPresent, btnPresent, width, height, nodes,
                   edges, edgesData, hoveredNode, time, animId, bound, hud,
                   error, layouts>>

-----------------------------------------------------------------------------
(* Inputs *)

\* Where pointer events land: on the rendered centre of a node, or on the
\* surface's corner
PointerPoints ==
    {[x |-> nodes[i].x, y |-> nodes[i].y] : i \in 1..Min(MaxPointerNode, Len(nodes))}
    \cup {[x |-> 0, y |-> 0]}

Next ==
    \/ \E s \in SurfaceChoices : Construct(s)
    \/ Frame
    \/ \E s \in SurfaceChoices : Resize(s)
    \/ \E p \in PointerPoints : MouseMove(p)
    \/ MouseLeave
    \/ \E p \in PointerPoints : Click(p)
    \/ \E p \in PointerPoints : TouchStart(p)
    \/ ActivateAll
    \/ ResetAll
    \/ Destroy

Spec == Init /\ [][Next]_vars

SpecHost == InitHost /\ [][Next]_vars

SpecEdges == InitEdges /\ [][Next]_vars

\* The render loop among clicks, resizes and teardown.  The browser runs a
\* requested animation-frame callback before its next repaint: a pending
\* frame does not wait forever
NextFrames ==
    \/ \E s \in SurfaceChoices : Construct(s)
    \/ Frame
    \/ \E s \in SurfaceChoices : Resize(s)
    \/ \E p \in PointerPoints : Click(p)
    \/ Destroy

SpecFrames == Init /\ [][NextFrames]_vars /\ WF_vars(Frame)

-----------------------------------------------------------------------------
(* A visitor who clicks and taps through all twelve nodes of the desktop     *)
(* panel and uses the bulk buttons: every subset of nodes becomes active     *)

AllNodePoints == {[x |-> nodes[i].x, y |-> nodes[i].y] : i \in 1..Len(nodes)}

NextClicks ==
    \/ Construct(Surfaces[1])
    \/ \E p \in AllNodePoints : Click(p)
    \/ \E p \in AllNodePoints : TouchStart(p)
    \/ ActivateAll
    \/ ResetAll

SpecClicks == Init /\ [][NextClicks]_vars

-----------------------------------------------------------------------------
(* The typing effect on its own: SystemViz is not constructed *)

viz == <<pc, canvasPresent, sinkPresent, btnPresent, width, height, nodes, edges,
         edgesData, hoveredNode, time, animId, rafPending, bound, hud,
         error, layouts, destroyCalls, drawn>>

\* initTypingEffect(elementId, strings): nothing without the element, else the
\* first tick is set to run after the start delay; its handle is dropped
InitTypingEffect ==
    /\ typing.phase = "new"
    /\ typing' = IF ~typing.el
                 THEN [typing EXCEPT !.phase = "absent"]
                 ELSE [typing EXCEPT !.phase = "running", !.pending = 1,
                                     !.handles = 1, !.delay = StartDelay]
    /\ UNCHANGED <<viz, form>>

\* The browser runs the pending timer's callback
Tick ==
    /\ typing.pending # 0
    /\ typing.ticks < MaxTicks
    /\ typing' = TickOf(typing)
    /\ UNCHANGED <<viz, form>>

\* The function initTypingEffect returned: clearTimeout(timeout)
Cleanup ==
    /\ typing.phase = "running"
    /\ typing.cleanups < MaxCleanups
    /\ typing' = [typing EXCEPT
                    !.cleanups = typing.cleanups + 1,
                    !.pending = IF typing.timeout # 0 /\ typing.pending = typing.timeout
                                THEN 0 ELSE typing.pending]
    /\ UNCHANGED <<viz, form>>

InitTyping ==
    /\ InitFields
    /\ canvasPresent = FullHost.canvas
    /\ sinkPresent = FullHost.sinks
    /\ btnPresent = FullHost.buttons
    /\ edgesData = ShippedEdges
    /\ \E strings \in TypingArrays, present \in BOOLEAN :
            typing = TypingNew(strings, present)
    /\ form = FormNew(TRUE, TRUE)

NextTyping ==
    \/ InitTypingEffect
    \/ Tick
    \/ Cleanup

SpecTyping == InitTyping /\ [][NextTyping]_vars

-----------------------------------------------------------------------------
(* The contact form on its own *)

Entries == {"blank", "bademail", "valid"}

\* How long after the previous event a submit arrives, in milliseconds
SubmitGaps == {1000, 4000}

\* 'submit' on #contact-form, gap milliseconds after the previous event; no
\* timer is due before it
Submit(entry, gap) ==
    /\ form.formEl
    /\ form.submits < MaxSubmits
    /\ \A t \in form.timers : t.left >= gap
    /\ form' = OnSubmit([form EXCEPT !.timers = Aged(form.timers, gap)], entry)
    /\ UNCHANGED <<viz, typing>>

\* The browser runs the callback of a timer that is due next
TimerFires ==
    /\ \E t \in form.timers :
            /\ \A u \in form.timers : t.left <= u.left
            /\ form' = OnTimer([form EXCEPT !.timers = Aged(form.timers \ {t}, t.left)], t)
    /\ UNCHANGED <<viz, typing>>

InitForm ==
    /\ InitFields
    /\ canvasPresent = FullHost.canvas
    /\ sinkPresent = FullHost.sinks
    /\ btnPresent = FullHost.buttons
    /\ edgesData = ShippedEdges
    /\ typing = TypingNew(ShippedStrings, TRUE)
    /\ \E formEl \in BOOLEAN, statusEl \in BOOLEAN : form = FormNew(formEl, statusEl)

NextForm ==
    \/ \E entry \in Entries, gap \in SubmitGaps : Submit(entry, gap)
    \/ TimerFires

SpecForm == InitForm /\ [][NextForm]_vars

-----------------------------------------------------------------------------
(* Vocabulary of the properties *)

Flags(ns) == [i \in 1..Len(ns) |-> ns[i].active]

\* The rendered position of every node
Rendered(ns) == [i \in 1..Len(ns) |-> <<ns[i].x, ns[i].y>>]

ZeroTexts == [active |-> "0 / 12", connections |-> "0", load |-> "0%"]

ResizeStep == \E s \in SurfaceChoices : Resize(s)

-----------------------------------------------------------------------------
(* Resize and teardown *)

\* C1: a resize event leaves every node's active flag as it was before the
\* resize; only the geometry may change.
C1_ResizeKeepsActive == [][ResizeStep => Flags(nodes') = Flags(nodes)]_vars

\* C2: once destroy() has been called, no later step pushes metrics to the
\* HUD sinks or redraws (advances the frame time).
C2_SilentAfterDestroy ==
    [][destroyCalls > 0 => hud' = hud /\ time' = time]_vars

\* C3: once destroy() has been called on a running instance, the pending frame
\* is cancelled and _animate never runs again: the time accumulator and every
\* node's rendered position stay as they are and no frame is pending.
C3_FrozenAfterDestroy ==
    [][(destroyCalls > 0 /\ pc = "live")
        => /\ time' = time
           /\ Rendered(nodes') = Rendered(nodes)
           /\ rafPending' = 0]_vars

\* The fields of the instance and what the browser holds for it
Component == <<pc, width, height, nodes, edges, edgesData, hoveredNode, time,
               animId, rafPending, bound, hud, error, layouts, drawn>>

\* C4: destroy() called a second time, or on an instance whose canvas was
\* absent, raises no error and changes nothing of the component.
C4_DestroyIdempotent ==
    [][(destroyCalls' = destroyCalls + 1 /\ (destroyCalls >= 1 \/ pc = "inert"))
        => (~error' /\ UNCHANGED Component)]_vars

C4_Witness == pc = "live" /\ destroyCalls = 2 /\ rafPending = 0 /\ animId # 0

-----------------------------------------------------------------------------
(* Connections *)

\* C5: an edge naming an identity that no node carries is reported when the
\* connections are built; no connection with an unresolved endpoint is stored.
C5_NoDanglingConnection ==
    \A k \in 1..Len(edges) : edges[k].from # Undefined /\ edges[k].to # Undefined

\* C6: with the shipped definitions, once the instance is set up (and after any
\* resize rebuild) the node ids are pairwise distinct and every stored
\* connection's from and to index the nodes its declared edge names.
C6_EdgesResolve ==
    bound =>
        /\ Len(nodes) = Len(nodesData)
        /\ \A i, j \in 1..Len(nodes) : i # j => nodes[i].id # nodes[j].id
        /\ Len(edges) = Len(edgesData)
        /\ \A k \in 1..Len(edges) :
            /\ edges[k].from \in 1..Len(nodes)
            /\ edges[k].to \in 1..Len(nodes)
            /\ nodes[edges[k].from].id = edgesData[k][1]
            /\ nodes[edges[k].to].id = edgesData[k][2]

C6_Witness ==
    /\ pc = "live" /\ layouts = 2 /\ Len(edges) = 17 /\ Len(nodes) = 12
    /\ ActiveCount(nodes) > 0

-----------------------------------------------------------------------------
(* Activation *)

\* C7: right after construction on an existing canvas every node is inactive
\* and the HUD shows "0 / 12", "0" and "0%".
C7_FreshIsZero ==
    [][(pc = "new" /\ pc' = "live")
        => /\ Len(nodes') = 12
           /\ \A i \in 1..Len(nodes') : ~nodes'[i].active
           /\ hud' = ZeroTexts]_vars

C7_Witness ==
    /\ pc = "live" /\ layouts = 1 /\ animId = 1 /\ destroyCalls = 0
    /\ ActiveCount(nodes) = 0 /\ hud = ZeroTexts

\* C8: a click or tap that hits a node flips the active flag of the hit node
\* and of no other node.  (A click or tap changes none of layouts, time,
\* destroyCalls and hoveredNode, so only such steps are looked at.)
C8_PressFlipsOne ==
    [][UNCHANGED <<layouts, time, destroyCalls, hoveredNode>> =>
        \A p \in PointerPoints, tol \in {MouseTolerance, TouchTolerance} :
            LET h == HitIndex(nodes, p.x, p.y, tol)
            IN  (h # Undefined /\ Press(p, tol))
                    => Flags(nodes') = [Flags(nodes) EXCEPT ![h] = ~Flags(nodes)[h]]]_vars

C8_Witness ==
    pc = "live" /\ layouts = 1 /\ ActiveCount(nodes) = 1 /\ hud.active = "1 / 12"

\* C9: two clicks in a row that hit the same node restore every active flag
\* and the published metrics to what they were before the first click.
C9_DoubleClickRestores ==
    bound =>
        \A p \in PointerPoints :
            LET once  == PressNodes(nodes, p.x, p.y, MouseTolerance)
                twice == PressNodes(once, p.x, p.y, MouseTolerance)
                shown == PushHUD(twice, edges, sinkPresent,
                                 PushHUD(once, edges, sinkPresent, hud))
            IN  HitIndex(nodes, p.x, p.y, MouseTolerance) # Undefined
                    => Flags(twice) = Flags(nodes) /\ shown = hud

\* C10: activate-all sets every active flag, reset-all clears every one, and
\* reset-all (so also activate-all followed by reset-all) leaves "0 / 12",
\* "0" and "0%" published whatever the flags were.
C10_BulkAbsorbs ==
    [][/\ ActivateAll => \A i \in 1..Len(nodes') : nodes'[i].active
       /\ ResetAll => /\ \A i \in 1..Len(nodes') : ~nodes'[i].active
                      /\ hud' = ZeroTexts]_vars

C10_Witness ==
    /\ pc = "live"
    /\ \A i \in 1..Len(nodes) : nodes[i].active
    /\ hud = [active |-> "12 / 12", connections |-> "17", load |-> "100%"]

-----------------------------------------------------------------------------
(* Metrics *)

\* Whether the node declared with identity id is active
IdActive(id) == \E i \in 1..Len(nodes) : nodes[i].id = id /\ nodes[i].active

\* Whether both nodes the k-th declared edge names are active
DeclaredBothActive(k) == IdActive(edgesData[k][1]) /\ IdActive(edgesData[k][2])

\* C11: for every subset of active nodes, a connection is drawn in the
\* both-active style exactly when both nodes its declared edge names are
\* active, and the published connection count is the number of such edges.
C11_BothActiveCounted ==
    bound =>
        /\ hud.connections
             = ToString(Cardinality({k \in 1..Len(edgesData) : DeclaredBothActive(k)}))
        /\ \A k \in 1..Len(edges) :
             (EdgeStyle(nodes, edges[k]) = "bright") <=> DeclaredBothActive(k)

C11_Witness ==
    /\ pc = "live"
    /\ {i \in 1..Len(nodes) : nodes[i].active} = {1, 2, 3}
    /\ hud.connections = "3"

\* 100 * k / 12 to the nearest whole number, for k = 0..12
RoundedPercent == <<0, 8, 17, 25, 33, 42, 50, 58, 67, 75, 83, 92, 100>>

\* A step in which a handler (or the constructor) runs _updateHUD
PushStep ==
    \/ pc = "new" /\ pc' = "live"
    \/ ActivateAll
    \/ ResetAll
    \/ \E p \in AllNodePoints, tol \in {MouseTolerance, TouchTolerance} :
            HitIndex(nodes, p.x, p.y, tol) # Undefined /\ Press(p, tol)

\* C12: after every metrics push with k of the 12 nodes active the HUD shows
\* "k / 12" and the load 100 * k / 12 rounded to the nearest whole number
\* followed by "%" (3 active give "25%"); clicking "core" in the initial
\* state publishes "1 / 12", "0" and "8%".
C12_HudFormats ==
    [][/\ PushStep =>
            LET k == ActiveCount(nodes')
            IN  /\ hud'.active = ToString(k) \o " / 12"
                /\ hud'.load = ToString(RoundedPercent[k + 1]) \o "%"
       /\ (pc = "live" /\ ActiveCount(nodes) = 0
                /\ Click([x |-> nodes[1].x, y |-> nodes[1].y]))
            => hud' = [active |-> "1 / 12", connections |-> "0", load |-> "8%"]]_vars

C12_Witness ==
    pc = "live" /\ ActiveCount(nodes) = 3 /\ hud.active = "3 / 12" /\ hud.load = "25%"

-----------------------------------------------------------------------------
(* Hit testing *)

Tolerances == {MouseTolerance, TouchTolerance}

\* The nodes whose rendered centre is nearer to point q than radius + tol
Covering(q, tol) ==
    {j \in 1..Len(nodes) :
        (q.x - nodes[j].x) * (q.x - nodes[j].x) + (q.y - nodes[j].y) * (q.y - nodes[j].y)
            < (nodes[j].radius + tol) * (nodes[j].radius + tol)}

Centre(i) == [x |-> nodes[i].x, y |-> nodes[i].y]

\* Points to probe for misses: the point at distance radius + tol to the right
\* of each node's centre, and the surface's corner
ProbePoints(tol) ==
    {[x |-> nodes[i].x + nodes[i].radius + tol, y |-> nodes[i].y] : i \in 1..Len(nodes)}
    \cup {[x |-> 0, y |-> 0]}

\* A press at a point that is at least radius + tol away from every node's
\* centre toggles nothing
FarPressMisses ==
    \A tol \in Tolerances : \A q \in ProbePoints(tol) :
        Covering(q, tol) = {} => PressNodes(nodes, q.x, q.y, tol) = nodes

\* C13 as stated: in every layout a click or tap at exactly a node's rendered
\* centre toggles that node, and a press at distance >= radius + tolerance
\* from every node's centre hits no node.
C13_CentreHitsOwnNode ==
    bound =>
        /\ \A i \in 1..Len(nodes), tol \in Tolerances :
              Flags(PressNodes(nodes, Centre(i).x, Centre(i).y, tol))
                  = [Flags(nodes) EXCEPT ![i] = ~Flags(nodes)[i]]
        /\ FarPressMisses

\* C13, amended: in every layout a click or tap at exactly a node's rendered
\* centre is within that node's reach and toggles the earliest-declared node
\* within whose reach the point lies (the node itself unless an earlier node
\* covers its centre); a press at distance >= radius + tolerance from every
\* node's centre hits no node.
C13_CentreHitsEarliest ==
    bound =>
        /\ \A i \in 1..Len(nodes), tol \in Tolerances :
              LET over == Covering(Centre(i), tol)
              IN  /\ i \in over
                  /\ \E h \in over :
                        /\ \A j \in over : h <= j
                        /\ Flags(PressNodes(nodes, Centre(i).x, Centre(i).y, tol))
                             = [Flags(nodes) EXCEPT ![h] = ~Flags(nodes)[h]]
        /\ FarPressMisses

\* On the small panel the core covers the centre of "frontend", and a press
\* there has activated the core, not "frontend"
C13_Witness ==
    /\ pc = "live" /\ width = 120
    /\ 1 \in Covering(Centre(2), MouseTolerance)
    /\ nodes[1].active /\ ~nodes[2].active
    /\ hud.active = "1 / 12"

\* C14: after every mousemove the hovered node is the earliest-declared node
\* whose rendered centre is nearer to the pointer than radius + 5, or none
\* when there is no such node; never more than one node is the hovered one.
C14_HoverIsEarliest ==
    [][UNCHANGED <<nodes, hud, time, layouts, destroyCalls>> =>
        \A p \in PointerPoints :
            MouseMove(p) =>
                LET over == Covering(p, MouseTolerance)
                IN  /\ IF over = {}
                       THEN hoveredNode' = NoNode
                       ELSE \E h \in over :
                                /\ \A j \in over : h <= j
                                /\ hoveredNode' = [idx |-> h, gen |-> nodes[h].gen]
                    /\ Cardinality({i \in 1..Len(nodes') :
                                        RefTo(nodes', i) = hoveredNode'}) <= 1]_vars

\* The pointer rests on "frontend", the second node, and it is the hovered one
C14_Witness ==
    /\ pc = "live"
    /\ hoveredNode = RefTo(nodes, 2)
    /\ Covering(Centre(2), MouseTolerance) = {2}

-----------------------------------------------------------------------------
(* Steps without effect on the activation *)

\* The step changes no active flag and publishes nothing
Quiet == Flags(nodes') = Flags(nodes) /\ hud' = hud

\* C15: a click or tap that hits no node, a mousemove and a mouseleave each
\* leave every active flag unchanged and push nothing to the HUD; a mouseleave
\* also leaves no node hovered.
C15_QuietSteps ==
    [][UNCHANGED <<layouts, time, destroyCalls>> =>
        /\ \A p \in PointerPoints :
              /\ MouseMove(p) => Quiet
              /\ \A tol \in Tolerances :
                    (Covering(p, tol) = {} /\ Press(p, tol)) => Quiet
        /\ MouseLeave => (Quiet /\ hoveredNode' = NoNode)]_vars

\* The pointer has moved onto "frontend" after "core" was clicked: the core
\* is still the only active node and the HUD still shows its one node
C15_Witness ==
    /\ pc = "live" /\ layouts = 1
    /\ hoveredNode = RefTo(nodes, 2)
    /\ {i \in 1..Len(nodes) : nodes[i].active} = {1}
    /\ hud = [active |-> "1 / 12", connections |-> "0", load |-> "8%"]

-----------------------------------------------------------------------------
(* Host pages that omit elements *)

\* C16: a missing host element never produces an error.  Without the canvas
\* the constructor initialises nothing (no nodes, no listeners, no frame) and
\* destroy() changes nothing; a HUD sink that is absent is never written,
\* while every push still writes the sinks that exist.  (The pushes are the
\* constructor's, those of the bulk buttons and those of a click or tap that
\* hits: the steps that change a flag without laying the nodes out anew.)
C16_MissingElementsTolerated ==
    /\ [](/\ ~error
          /\ ~canvasPresent =>
                /\ pc \in {"new", "inert"}
                /\ nodes = << >> /\ edges = << >> /\ ~bound
                /\ animId = 0 /\ rafPending = 0 /\ drawn = << >>
          /\ \A k \in Sinks : ~sinkPresent[k] => hud[k] = "")
    /\ [][/\ pc = "inert" => UNCHANGED Component
          /\ (\/ pc = "new" /\ pc' = "live"
              \/ /\ UNCHANGED <<layouts, time, destroyCalls, hoveredNode>>
                 /\ (Flags(nodes') # Flags(nodes) \/ ActivateAll \/ ResetAll))
               => \A k \in Sinks :
                       sinkPresent[k] => hud'[k] = HudTexts(nodes', edges')[k]]_vars

\* The page has no connections sink: a click has published the active count
\* and the load, and the missing sink was skipped
C16_Witness ==
    /\ pc = "live" /\ ~error
    /\ ~sinkPresent["connections"] /\ sinkPresent["active"] /\ sinkPresent["load"]
    /\ ActiveCount(nodes) = 2
    /\ hud = [active |-> "2 / 12", connections |-> "", load |-> "17%"]

-----------------------------------------------------------------------------
(* The render loop *)

\* In the drawing ds every connection and every node is drawn, and every
\* connection comes before any node
EdgesUnderNodes(ds) ==
    /\ \A k \in 1..Len(edges) : \E a \in 1..Len(ds) : ds[a] = <<"edge", k>>
    /\ \A i \in 1..Len(nodes) : \E b \in 1..Len(ds) : ds[b] = <<"node", i>>
    /\ \A a, b \in 1..Len(ds) : (ds[a][1] = "edge" /\ ds[b][1] = "node") => a < b

\* C17: every frame (the time accumulator moves only in a frame) advances the
\* time by the same fixed increment, draws every connection before any node
\* and requests exactly one next frame; so until destroy() is called a frame
\* is always pending, and every frame is followed by a further one (or by
\* destroy()) up to the bound on frames.
C17_FramesKeepComing ==
    /\ [][time' # time =>
            /\ time' = time + TimeStep /\ time' > time
            /\ EdgesUnderNodes(drawn')
            /\ animId' = animId + 1 /\ rafPending' = animId']_vars
    /\ []((pc = "live" /\ destroyCalls = 0) => (rafPending # 0 /\ rafPending = animId))
    /\ \A n \in 1..(MaxFrames - 1) :
            (pc = "live" /\ animId = n) ~> (animId > n \/ destroyCalls > 0)

\* Two frames have run and a third is pending
C17_Witness ==
    /\ pc = "live" /\ destroyCalls = 0
    /\ animId = 2 /\ time = 2 * TimeStep /\ rafPending = 2
    /\ Len(drawn) = Len(edges) + Len(nodes)

-----------------------------------------------------------------------------
(* What the instance holds against what is current *)

\* C18: in every reachable state of a constructed instance the texts last
\* published to the HUD are the metrics derived from the current active flags.
C18_HudMatchesFlags ==
    pc = "live" => hud = HudTexts(nodes, edges)

\* C19: in every reachable state the hovered node is none or one of the
\* objects of the current nodes array, also after a resize has rebuilt the
\* array while a node was hovered.
C19_HoverIsCurrentNode ==
    \/ hoveredNode = NoNode
    \/ \E i \in 1..Len(nodes) : hoveredNode = RefTo(nodes, i)

-----------------------------------------------------------------------------
(* The typing effect *)

\* C20: once the cleanup function initTypingEffect returned has been called,
\* also when that is before the first tick, no tick runs and the element's
\* text never changes again.
C20_CleanupStopsTyping ==
    [][typing.cleanups > 0 =>
        (typing'.ticks = typing.ticks /\ typing'.text = typing.text)]_vars

\* The string the effect is at: strings[stringIndex]
Current == typing.strings[typing.stringIndex + 1]

IsPrefix(text, string) ==
    Len(text) <= Len(string) /\ text = SubSeq(string, 1, Len(text))

\* C21: for every non-empty array of strings, in every state charIndex is
\* within 0..length of the current string and the displayed text is a prefix
\* of it; the effect turns to deleting only with the string fully displayed,
\* and stringIndex moves only when the string is fully deleted, by one modulo
\* the array length.
C21_TypingCycles ==
    /\ [](typing.phase = "running" =>
            /\ typing.charIndex \in 0..Len(Current)
            /\ IsPrefix(typing.text, Current))
    /\ [][/\ (~typing.isDeleting /\ typing'.isDeleting) => typing'.text = Current
          /\ typing'.stringIndex # typing.stringIndex =>
                /\ typing.isDeleting
                /\ typing'.charIndex = 0 /\ typing'.text = << >>
                /\ typing'.stringIndex
                     = (typing.stringIndex + 1) % Len(typing.strings)]_vars

-----------------------------------------------------------------------------
(* The contact form's status line *)

\* The clear timer set for the message on display is pending before the
\* step and gone after it
OwnTimerFired ==
    /\ \E t \in form.timers : t.kind = "clear" /\ t.of = form.shownBy
    /\ ~\E u \in form'.timers : u.kind = "clear" /\ u.of = form.shownBy

\* C22: a status message stays on display until a newer message replaces it
\* or the auto-clear timer set for that same message fires; a timer set for
\* an earlier message never clears a message shown later, under any
\* interleaving of submits and timer expiries.
C22_OwnTimerClears ==
    [][(form.shownBy # 0 /\ form'.shownBy # form.shownBy) =>
        \/ form'.shownBy > form.shownBy
        \/ form'.shownBy = 0 /\ OwnTimerFired]_vars

=============================================================================
